---------------------------- MODULE Spec2Model ----------------------------
(***************************************************************************)
(* A model of sushi (src/sushi/sushi.cpp): the lexer gettok, the           *)
(* recursive-descent / precedence-climbing Parser, and the driver loop of  *)
(* main.  Characters are their ASCII codes, EOF is -1, tokens are the      *)
(* negative Token enumerators or a character code, as in the source.       *)
(***************************************************************************)
EXTENDS Integers, Sequences, FiniteSets, TLC

VARIABLES
    input,            \* the characters standard input will deliver
    pos,              \* how many of them getchar has delivered
    LastChar,         \* gettok's static pushback character
    IdentifierStr,    \* filled in by gettok for an identifier
    NumVal,           \* filled in by gettok for a number
    CurTok,           \* the parser's one token of lookahead
    BinopPrecedence,  \* the std::map<char,int> of operator precedences
    pc,               \* where main is: "start", "loop" or "done"
    parsed,           \* history: what each dispatched Parse* call returned
    last,             \* history: facts about the last dispatch
    toks              \* history: every token gettok has returned, in order

vars == <<input, pos, LastChar, IdentifierStr, NumVal, CurTok,
          BinopPrecedence, pc, parsed, last, toks>>

-----------------------------------------------------------------------------
(* Characters *)

\* The printable ASCII characters in code order, starting at the space (the
\* double quote, the backslash and the back quote are spelled by name).
Printable ==
    <<" ", "!", "dquote", "#", "$", "%", "&", "'", "(", ")", "*", "+", ",", "-",
      ".", "/", "0", "1", "2", "3", "4", "5", "6", "7", "8", "9", ":", ";",
      "<", "=", ">", "?", "@", "A", "B", "C", "D", "E", "F", "G", "H", "I",
      "J", "K", "L", "M", "N", "O", "P", "Q", "R", "S", "T", "U", "V", "W",
      "X", "Y", "Z", "[", "bslash", "]", "^", "_", "bquote", "a", "b", "c", "d", "e",
      "f", "g", "h", "i", "j", "k", "l", "m", "n", "o", "p", "q", "r", "s",
      "t", "u", "v", "w", "x", "y", "z", "{", "|", "}", "~">>

\* The code of the first printable character, the space.
SpaceCode == 32

\* The character code of a one-character string.
Ord ==
    [c \in {Printable[i] : i \in 1..Len(Printable)} \cup {"\t", "\n", "\r"} |->
        CASE c = "\t" -> 9
          [] c = "\n" -> 10
          [] c = "\r" -> 13
          [] OTHER -> SpaceCode - 1
                        + (CHOOSE i \in 1..Len(Printable) : Printable[i] = c)]

\* The character codes of a text given as a tuple of one-character strings.
Str(s) == [i \in 1..Len(s) |-> Ord[s[i]]]

EOF == -1

isspace(c) == c \in {Ord[" "], Ord["\t"], Ord["\n"], Ord["\r"], 11, 12}
isdigit(c) == c \in Ord["0"]..Ord["9"]
isalpha(c) == c \in (Ord["A"]..Ord["Z"]) \cup (Ord["a"]..Ord["z"])
isalnum(c) == isalpha(c) \/ isdigit(c)
isascii(c) == c \in 0..127

-----------------------------------------------------------------------------
(* Tokens *)

EOFToken == -1
DefToken == -2
ExternToken == -3
IdentifierToken == -4
NumberToken == -5

-----------------------------------------------------------------------------
(* The lexer.  Every operator takes and returns the record of the          *)
(* process-wide state it reads and writes, standard input included.        *)

\* A result: the state after the call and the value returned.
Ret(st, v) == [st |-> st, v |-> v]

\* LastChar = getchar(): the next character of standard input, EOF once it
\* is used up.
ReadLastChar(st) ==
    IF st.pos < Len(st.input)
    THEN [st EXCEPT !.pos = @ + 1, !.LastChar = st.input[st.pos + 1]]
    ELSE [st EXCEPT !.LastChar = EOF]

\* while (isspace(LastChar)) LastChar = getchar();
RECURSIVE SkipWhitespace(_)
SkipWhitespace(st) ==
    IF isspace(st.LastChar) THEN SkipWhitespace(ReadLastChar(st)) ELSE st

\* while (isalnum((LastChar = getchar()))) IdentifierStr += LastChar;
\* entered with the character just read in LastChar.
RECURSIVE ReadIdentifier(_)
ReadIdentifier(st) ==
    IF isalnum(st.LastChar)
    THEN ReadIdentifier(
             ReadLastChar([st EXCEPT !.IdentifierStr = Append(@, st.LastChar)]))
    ELSE st

\* do { NumStr += LastChar; LastChar = getchar(); }
\* while (isdigit(LastChar) || LastChar == '.');
RECURSIVE ReadNumber(_, _)
ReadNumberWhile(st, NumStr) ==
    IF isdigit(st.LastChar) \/ st.LastChar = Ord["."]
    THEN ReadNumber(st, NumStr)
    ELSE Ret(st, NumStr)
ReadNumber(st, NumStr) ==
    ReadNumberWhile(ReadLastChar(st), Append(NumStr, st.LastChar))

\* The value of a run of decimal digits, most significant first.
RECURSIVE DigitsValue(_)
DigitsValue(ds) ==
    IF ds = <<>> THEN 0
    ELSE 10 * DigitsValue(SubSeq(ds, 1, Len(ds) - 1)) + (ds[Len(ds)] - Ord["0"])

\* The longest prefix of s made of digits.
RECURSIVE DigitPrefix(_)
DigitPrefix(s) ==
    IF s # <<>> /\ isdigit(s[1]) THEN <<s[1]>> \o DigitPrefix(Tail(s)) ELSE <<>>

\* A decimal m / 10^k in lowest terms, as <<m, k>>.
RECURSIVE Normalize(_, _)
Normalize(m, k) ==
    IF k > 0 /\ m % 10 = 0 THEN Normalize(m \div 10, k - 1) ELSE <<m, k>>

RECURSIVE Pow10(_)
Pow10(k) == IF k = 0 THEN 1 ELSE 10 * Pow10(k - 1)

\* The decimal with integer digits ip and fraction digits fp; no digit at
\* all is no conversion, and strtod then returns 0.
Decimal(ip, fp) ==
    IF ip = <<>> /\ fp = <<>> THEN <<0, 0>>
    ELSE Normalize(DigitsValue(ip) * Pow10(Len(fp)) + DigitsValue(fp), Len(fp))

\* The digits after the dot that follows the integer digits ip of s, if a
\* dot follows them.
Fraction(s, ip) ==
    IF Len(s) > Len(ip) /\ s[Len(ip) + 1] = Ord["."]
    THEN DigitPrefix(SubSeq(s, Len(ip) + 2, Len(s)))
    ELSE <<>>

\* strtod on a text of digits and dots: the longest prefix of the shape
\* digits [ '.' digits ] is converted, and what follows it (a second dot
\* and after) is ignored.
strtod(NumStr) ==
    Decimal(DigitPrefix(NumStr), Fraction(NumStr, DigitPrefix(NumStr)))

RECURSIVE SkipComment(_)

\* The comment loop without its test for '\r'.
SkipCommentWhileNoCR(st) ==
    IF st.LastChar # EOF /\ st.LastChar # Ord["\n"]
    THEN SkipComment(st)
    ELSE st

\* do LastChar = getchar();
\* while (LastChar != EOF && LastChar != '\n' && LastChar != '\r');
SkipCommentWhile(st) ==
    IF st.LastChar # EOF /\ st.LastChar # Ord["\n"] /\ st.LastChar # Ord["\r"]
    THEN SkipComment(st)
    ELSE st
SkipComment(st) == SkipCommentWhile(ReadLastChar(st))

\* if (IdentifierStr == "def") ... "extern" ... return IdentifierToken
Keyword(id) ==
    IF id = Str(<<"d", "e", "f">>) THEN DefToken
    ELSE IF id = Str(<<"e", "x", "t", "e", "r", "n">>) THEN ExternToken
    ELSE IdentifierToken

RECURSIVE gettok(_)

\* The identifier branch of gettok, once IdentifierStr is complete.
IdentifierRead(st) == Ret(st, Keyword(st.IdentifierStr))

\* The identifier branch of gettok.
LexIdentifier(st) ==
    IdentifierRead(
        ReadIdentifier(ReadLastChar([st EXCEPT !.IdentifierStr = <<st.LastChar>>])))

\* The number branch of gettok, once NumStr (r.v) is complete.
NumberRead(r) == Ret([r.st EXCEPT !.NumVal = strtod(r.v)], NumberToken)

\* The number branch of gettok.
LexNumber(st) == NumberRead(ReadNumber(st, <<>>))

\* The end of gettok: EOFToken at the end of input, else the character
\* itself, and the next one is read.
LexChar(st) ==
    IF st.LastChar = EOF THEN Ret(st, EOFToken)
    ELSE Ret(ReadLastChar(st), st.LastChar)

\* The comment branch of gettok, after the comment is skipped: the next
\* token, unless the input ended.
LexAfterComment(st) ==
    IF st.LastChar # EOF THEN gettok(st) ELSE LexChar(st)

\* gettok() once the white space is skipped.
LexToken(st) ==
    IF isalpha(st.LastChar) THEN LexIdentifier(st)
    ELSE IF isdigit(st.LastChar) \/ st.LastChar = Ord["."] THEN LexNumber(st)
    ELSE IF st.LastChar = Ord["#"] THEN LexAfterComment(SkipComment(st))
    ELSE LexChar(st)

\* gettok(): the next token of standard input.
gettok(st) == LexToken(SkipWhitespace(st))

\* What a token carries besides its kind.
Payload(st, tok) ==
    IF tok = IdentifierToken THEN st.IdentifierStr
    ELSE IF tok = NumberToken THEN st.NumVal
    ELSE <<>>

\* CurTok = (the token g gettok returned).  The history toks records it.
SetCurTok(g) ==
    [g.st EXCEPT !.CurTok = g.v,
                 !.toks = Append(@, <<g.v, Payload(g.st, g.v)>>)]

\* getNextToken(): CurTok = gettok().
getNextToken(st) == SetCurTok(gettok(st))

-----------------------------------------------------------------------------
(* The AST.  nullptr is Null; every node is a record with its class in     *)
(* the field type.                                                         *)

Null == [type |-> "nullptr"]
NumberExprAST(Val) == [type |-> "Number", Val |-> Val]
VariableExprAST(Name) == [type |-> "Variable", Name |-> Name]
BinaryExprAST(Op, LHS, RHS) ==
    [type |-> "Binary", Op |-> Op, LHS |-> LHS, RHS |-> RHS]
CallExprAST(Callee, Args) == [type |-> "Call", Callee |-> Callee, Args |-> Args]
PrototypeAST(Name, Args) == [type |-> "Prototype", Name |-> Name, Args |-> Args]
FunctionAST(Proto, Body) == [type |-> "Function", Proto |-> Proto, Body |-> Body]

\* std::make_unique<...>(...): the node is built.  The history field late
\* counts the nodes built after an error was logged in the same dispatch.
Make(st, node) ==
    Ret(IF st.errs # <<>> THEN [st EXCEPT !.late = @ + 1] ELSE st, node)

\* LogError / LogErrorP: one line on stderr, and nullptr.
LogError(st, msg) == Ret([st EXCEPT !.errs = Append(@, msg)], Null)

\* return nullptr, after the call that returned r returned nullptr.
Fail(r) == Ret(r.st, Null)

-----------------------------------------------------------------------------
(* Operator precedences *)

\* std::map::operator[]: the map after the lookup, which inserts a
\* value-initialised entry (0) for a key it does not hold.
MapIndex(m, key) ==
    IF key \in DOMAIN m THEN m ELSE m @@ (key :> 0)

\* GetTokPrecedence() after int TokPrec = BinopPrecedence[CurTok], which
\* left the map as m.
TokPrecRead(st, m) ==
    Ret([st EXCEPT !.BinopPrecedence = m],
        IF m[st.CurTok] <= 0 THEN -1 ELSE m[st.CurTok])

\* GetTokPrecedence(): the precedence of the pending binary operator token.
GetTokPrecedence(st) ==
    IF ~isascii(st.CurTok) THEN Ret(st, -1)
    ELSE TokPrecRead(st, MapIndex(st.BinopPrecedence, st.CurTok))

\* m[k] = v
MapSet(m, k, v) == [x \in DOMAIN m \cup {k} |-> IF x = k THEN v ELSE m[x]]

\* main's four assignments BinopPrecedence['<'] = 10; ... ['*'] = 40.
InstallBinops(m) ==
    MapSet(MapSet(MapSet(MapSet(m, Ord["<"], 10), Ord["+"], 20), Ord["-"], 20),
           Ord["*"], 40)

-----------------------------------------------------------------------------
(* The parser.  A function of the source is an operator of the same name;  *)
(* where it goes on after a call it made, the rest of it is an operator    *)
(* that takes what the call returned.                                      *)

RECURSIVE ParseExpression(_), ParsePrimary(_), ParseParenExpr(_),
          ParseIdentifierExpr(_), ParseCallArgs(_, _, _),
          ParseBinOpRHS(_, _, _)

\* ParseNumberExpr without its getNextToken().
ParseNumberExprKeepsToken(st) == Make(st, NumberExprAST(st.NumVal))

\* numberexpr ::= number
ParseNumberExpr(st) ==
    Ret(getNextToken(Make(st, NumberExprAST(st.NumVal)).st),
        NumberExprAST(st.NumVal))

\* ParseParenExpr without its getNextToken() for the ')'.
ParenCloseKeepsParen(V) ==
    IF V.v = Null THEN Fail(V)
    ELSE IF V.st.CurTok # Ord[")"] THEN LogError(V.st, "expected ')'")
    ELSE V

\* ParseParenExpr after its ParseExpression returned V.
ParenClose(V) ==
    IF V.v = Null THEN Fail(V)
    ELSE IF V.st.CurTok # Ord[")"] THEN LogError(V.st, "expected ')'")
    ELSE Ret(getNextToken(V.st), V.v)

\* parenexpr ::= '(' expression ')'
ParseParenExpr(st) == ParenClose(ParseExpression(getNextToken(st)))

\* The loop breaking on a bad separator instead of returning: the call is
\* built from the arguments parsed so far.
CallArgParsedPartial(Arg, IdName, Args) ==
    IF Arg.v = Null THEN Fail(Arg)
    ELSE IF Arg.st.CurTok = Ord[")"]
    THEN Make(getNextToken(Arg.st), CallExprAST(IdName, Append(Args, Arg.v)))
    ELSE IF Arg.st.CurTok # Ord[","]
    THEN Make(getNextToken(
                  LogError(Arg.st, "Expected ')' or ',' in argument list").st),
              CallExprAST(IdName, Append(Args, Arg.v)))
    ELSE ParseCallArgs(getNextToken(Arg.st), IdName, Append(Args, Arg.v))

\* The while (true) loop of ParseIdentifierExpr after ParseExpression
\* returned the argument Arg, and what follows the loop: eat the ')' and
\* build the CallExprAST.
CallArgParsed(Arg, IdName, Args) ==
    IF Arg.v = Null THEN Fail(Arg)
    ELSE IF Arg.st.CurTok = Ord[")"]
    THEN Make(getNextToken(Arg.st), CallExprAST(IdName, Append(Args, Arg.v)))
    ELSE IF Arg.st.CurTok # Ord[","]
    THEN LogError(Arg.st, "Expected ')' or ',' in argument list")
    ELSE ParseCallArgs(getNextToken(Arg.st), IdName, Append(Args, Arg.v))

\* One turn of that loop.
ParseCallArgs(st, IdName, Args) ==
    CallArgParsed(ParseExpression(st), IdName, Args)

\* ParseIdentifierExpr after the '(' is eaten.
CallOpened(st, IdName) ==
    IF st.CurTok # Ord[")"]
    THEN ParseCallArgs(st, IdName, <<>>)
    ELSE Make(getNextToken(st), CallExprAST(IdName, <<>>))

\* ParseIdentifierExpr after the identifier is eaten.
IdentifierEaten(st, IdName) ==
    IF st.CurTok # Ord["("] THEN Make(st, VariableExprAST(IdName))
    ELSE CallOpened(getNextToken(st), IdName)

\* identifierexpr ::= identifier | identifier '(' expression* ')'
ParseIdentifierExpr(st) == IdentifierEaten(getNextToken(st), st.IdentifierStr)

\* primary ::= identifierexpr | numberexpr | parenexpr
ParsePrimary(st) ==
    IF st.CurTok = IdentifierToken THEN ParseIdentifierExpr(st)
    ELSE IF st.CurTok = NumberToken THEN ParseNumberExpr(st)
    ELSE IF st.CurTok = Ord["("] THEN ParseParenExpr(st)
    ELSE LogError(st, "unknown token when expecting an expression")

\* The test with its operands swapped.
BindsTighterReversed(TokPrec, NextPrec) == TokPrec > NextPrec

\* if (TokPrec < NextPrec): the pending operator binds tighter than the one
\* just eaten, so the right operand goes into a recursive ParseBinOpRHS.
BindsTighter(TokPrec, NextPrec) == TokPrec < NextPrec

\* ParseBinOpRHS once the right operand R is complete: merge LHS/RHS and
\* go round the loop again.
BinOpMerge(R, BinOp, ExprPrec, LHS) ==
    IF R.v = Null THEN Fail(R)
    ELSE ParseBinOpRHS(Make(R.st, BinaryExprAST(BinOp, LHS, R.v)).st, ExprPrec,
                       BinaryExprAST(BinOp, LHS, R.v))

\* The look-ahead of a right-associative parser: an operator of the same
\* precedence also sends the right operand into the recursive call, which
\* then accepts operators of that precedence.
BinOpLookedAheadRightAssoc(n, RHS, TokPrec, BinOp, ExprPrec, LHS) ==
    BinOpMerge(IF TokPrec <= n.v
               THEN ParseBinOpRHS(n.st, TokPrec, RHS)
               ELSE Ret(n.st, RHS),
               BinOp, ExprPrec, LHS)

\* ParseBinOpRHS after the look n at the operator that follows the primary
\* RHS.
BinOpLookedAhead(n, RHS, TokPrec, BinOp, ExprPrec, LHS) ==
    BinOpMerge(IF BindsTighter(TokPrec, n.v)
               THEN ParseBinOpRHS(n.st, TokPrec + 1, RHS)
               ELSE Ret(n.st, RHS),
               BinOp, ExprPrec, LHS)

\* ParseBinOpRHS after ParsePrimary returned RHS.
BinOpPrimaryParsed(RHS, TokPrec, BinOp, ExprPrec, LHS) ==
    IF RHS.v = Null THEN Fail(RHS)
    ELSE BinOpLookedAhead(GetTokPrecedence(RHS.st), RHS.v, TokPrec, BinOp,
                          ExprPrec, LHS)

\* One turn of ParseBinOpRHS's loop, after GetTokPrecedence returned p.
BinOpTurn(p, ExprPrec, LHS) ==
    IF p.v < ExprPrec THEN Ret(p.st, LHS)
    ELSE BinOpPrimaryParsed(ParsePrimary(getNextToken(p.st)), p.v, p.st.CurTok,
                            ExprPrec, LHS)

\* binoprhs ::= (op primary)*
ParseBinOpRHS(st, ExprPrec, LHS) ==
    BinOpTurn(GetTokPrecedence(st), ExprPrec, LHS)

\* ParseExpression after ParsePrimary returned LHS.
ExpressionPrimaryParsed(LHS) ==
    IF LHS.v = Null THEN Fail(LHS)
    ELSE ParseBinOpRHS(LHS.st, 0, LHS.v)

\* expression ::= primary binoprhs
ParseExpression(st) == ExpressionPrimaryParsed(ParsePrimary(st))

RECURSIVE ReadArgNames(_, _)

\* The loop putting each name in front of the ones before it.
ReadArgNamesWhileInFront(st, ArgNames) ==
    IF st.CurTok = IdentifierToken
    THEN ReadArgNames(st, <<st.IdentifierStr>> \o ArgNames)
    ELSE Ret(st, ArgNames)

\* while (getNextToken() == IdentifierToken) ArgNames.push_back(IdentifierStr);
ReadArgNamesWhile(st, ArgNames) ==
    IF st.CurTok = IdentifierToken
    THEN ReadArgNames(st, Append(ArgNames, st.IdentifierStr))
    ELSE Ret(st, ArgNames)
ReadArgNames(st, ArgNames) == ReadArgNamesWhile(getNextToken(st), ArgNames)

\* ParsePrototype after the loop over the parameters returned a.
PrototypeArgsRead(a, FnName) ==
    IF a.st.CurTok # Ord[")"]
    THEN LogError(a.st, "Expected ')' in prototype")
    ELSE Make(getNextToken(a.st), PrototypeAST(FnName, a.v))

\* ParsePrototype after the name is eaten.
PrototypeNameEaten(st, FnName) ==
    IF st.CurTok # Ord["("] THEN LogError(st, "Expected '(' in prototype")
    ELSE PrototypeArgsRead(ReadArgNames(st, <<>>), FnName)

\* prototype ::= id '(' id* ')'
ParsePrototype(st) ==
    IF st.CurTok # IdentifierToken
    THEN LogError(st, "Expected function name in prototype")
    ELSE PrototypeNameEaten(getNextToken(st), st.IdentifierStr)

\* ParseDefinition after ParseExpression returned E.
DefinitionBodyParsed(E, Proto) ==
    IF E.v # Null THEN Make(E.st, FunctionAST(Proto, E.v)) ELSE Fail(E)

\* ParseDefinition after ParsePrototype returned Proto.
DefinitionProtoParsed(Proto) ==
    IF Proto.v = Null THEN Fail(Proto)
    ELSE DefinitionBodyParsed(ParseExpression(Proto.st), Proto.v)

\* definition ::= 'def' prototype expression
ParseDefinition(st) == DefinitionProtoParsed(ParsePrototype(getNextToken(st)))

\* The name of the anonymous prototype of a top-level expression.
AnonName == Str(<<"_", "_", "a", "n", "o", "n", "_", "e", "x", "p", "r">>)

\* ParseTopLevelExpr after ParseExpression returned E: the anonymous
\* prototype and the function are built.
TopLevelParsed(E) ==
    IF E.v # Null
    THEN Make(Make(E.st, PrototypeAST(AnonName, <<>>)).st,
              FunctionAST(PrototypeAST(AnonName, <<>>), E.v))
    ELSE Fail(E)

\* toplevelexpr ::= expression
ParseTopLevelExpr(st) == TopLevelParsed(ParseExpression(st))

\* external ::= 'extern' prototype
ParseExtern(st) == ParsePrototype(getNextToken(st))

\* A handler without the getNextToken() of its else branch.
RecoverNoSkip(r) == [st |-> r.st, v |-> r.v, at |-> r.st]

\* What a handler does with what its Parse* call returned: on nullptr it
\* skips a token for error recovery.  The field at keeps the state in which
\* the Parse* call returned.
Recover(r) ==
    [st |-> IF r.v # Null THEN r.st ELSE getNextToken(r.st),
     v  |-> r.v,
     at |-> r.st]

HandleDefinition(st) == Recover(ParseDefinition(st))
HandleExtern(st) == Recover(ParseExtern(st))
HandleTopLevelExpression(st) == Recover(ParseTopLevelExpr(st))

-----------------------------------------------------------------------------
(* The inputs *)

MaxLen == 3
MaxOps == 3
MaxParams == 2

\* All sequences over S of length at most n.
SeqsUpTo(S, n) == UNION {[1..k -> S] : k \in 0..n}

\* The concatenation of a sequence of sequences.
RECURSIVE Cat(_)
Cat(ss) == IF ss = <<>> THEN <<>> ELSE ss[1] \o Cat(Tail(ss))

\* Every text of at most MaxLen characters over an alphabet that has a
\* letter, a digit, white space, a comment, operators, punctuation and a
\* character outside ASCII.
RawAlphabet ==
    {Ord[c] : c \in {"a", "1", "#", "\n", " ", "+", "(", ")", ",", ";"}} \cup {200}
RawInputs == SeqsUpTo(RawAlphabet, MaxLen)

\* Operator chains p0 op1 p1 ... opN pN, 1 <= N <= MaxOps.  The primary at
\* position i is the i-th letter, or the digit i in parentheses.
Letters == <<"a", "b", "c", "x", "y", "z">>
Digits == <<"0", "1", "2", "3", "4", "5", "6", "7", "8", "9">>
Kinds == {"var", "paren"}
Ops == {Ord[c] : c \in {"<", "+", "-", "*"}}
PrimText(kind, i) ==
    IF kind = "var" THEN Str(<<Letters[i + 1]>>)
    ELSE Str(<<"(", Digits[i + 1], ")">>)
PrimAST(kind, i) ==
    IF kind = "var" THEN VariableExprAST(Str(<<Letters[i + 1]>>))
    ELSE NumberExprAST(<<i, 0>>)
Chains(N) == [kinds : [0..N -> Kinds], ops : [1..N -> Ops]]
ChainLen(c) == Len(c.ops)
ChainText(c) ==
    PrimText(c.kinds[0], 0)
      \o Cat([i \in 1..ChainLen(c) |-> <<c.ops[i]>> \o PrimText(c.kinds[i], i)])
ChainInputs == {ChainText(c) : c \in UNION {Chains(N) : N \in 1..MaxOps}}

\* Prototypes: extern or def, a name (or something that is not one), an
\* opening parenthesis (or not), at most MaxParams parameters, what ends
\* them, and what follows.
ProtoInputs ==
    {Cat(<<Str(kw), Str(head), Cat(ps), Str(term), Str(tail)>>) :
        kw \in {<<"e", "x", "t", "e", "r", "n", " ">>, <<"d", "e", "f", " ">>},
        head \in {<<"f", "(">>, <<"f", " ">>, <<"1", "(">>, <<"(">>},
        ps \in SeqsUpTo({Str(<<"a", " ">>), Str(<<"b", " ">>)}, MaxParams),
        term \in {<<")">>, <<",">>, <<"1">>, <<"d", "e", "f">>,
                  <<"e", "x", "t", "e", "r", "n">>, <<>>, <<";">>},
        tail \in {<<>>, <<" ", "a">>, <<" ", "a", "+", "1", ";">>}}

\* Calls f(arg sep arg close, well formed or not.
CallInputs ==
    {Cat(<<Str(<<"f", "(">>), Str(a1), Str(sep), Str(a2), Str(close), Str(tail)>>) :
        a1 \in {<<"1">>, <<"a">>, <<"1", "+", "a">>, <<"(", "1", ")">>, <<>>, <<"+">>},
        sep \in {<<",">>, <<" ">>, <<>>},
        a2 \in {<<"2">>, <<"b">>, <<"g", "(", ")">>, <<>>},
        close \in {<<")">>, <<>>, <<";">>},
        tail \in {<<>>, <<"*", "2">>, <<";", "a">>}}

\* Comments: text, a '#', the comment's text, how the line ends, more text.
CommentInputs ==
    {Cat(<<Str(pre), Str(<<"#">>), Str(body), Str(eol), Str(post)>>) :
        pre \in {<<>>, <<"1">>, <<"a">>, <<"a", " ">>},
        body \in {<<>>, <<"x">>, <<"#">>, <<" ", "1">>, <<"(", "+">>},
        eol \in {<<"\n">>, <<"\r">>, <<>>, <<"\r", "\n">>},
        post \in {<<>>, <<"2">>, <<"b">>, <<"#", "c", "\n", "d">>}}

\* The inputs of the specification's examples.
AvgInput ==
    Str(<<"d", "e", "f", " ", "a", "v", "g", "(", "a", " ", "b", ")", " ",
          "(", "a", "+", "b", ")", "/", "2">>)
MissingCommaInput == Str(<<"f", "o", "o", "(", "1", " ", "2", ")">>)
MulInput == Str(<<"1", "+", "2", "*", "3">>)
SubInput == Str(<<"1", "-", "2", "-", "3">>)
CommentInput ==
    Str(<<"1", " ", "#", " ", "c", "o", "m", "m", "e", "n", "t", "\n", "2">>)
ExampleInputs ==
    {AvgInput, MissingCommaInput, MulInput, SubInput, CommentInput,
     Str(<<"f", "o", "o", "1", "2", "3", " ", "=">>),
     Str(<<"3", ".", "1", "4">>), Str(<<".", "5">>),
     Str(<<"1", ".", "2", ".", "3">>), Str(<<".">>), Str(<<"1", "0", ".">>),
     Str(<<"f", "o", "o", "(", "1", ",", " ", "2", "+", "3", ")">>),
     Str(<<"e", "x", "t", "e", "r", "n", " ", "s", "i", "n", "(", "x", ")", ";">>)}

Inputs ==
    RawInputs \cup ChainInputs \cup ProtoInputs \cup CallInputs
      \cup CommentInputs \cup ExampleInputs

-----------------------------------------------------------------------------
(* main *)

\* The process-wide state as the record the operators above work on, with
\* the error lines and the late-node count of the dispatch starting now.
Cur ==
    [input |-> input, pos |-> pos, LastChar |-> LastChar, IdentifierStr |-> IdentifierStr,
     NumVal |-> NumVal, CurTok |-> CurTok, BinopPrecedence |-> BinopPrecedence,
     toks |-> toks, errs |-> <<>>, late |-> 0]

\* The state after a call is the record st.
Becomes(st) ==
    /\ pos' = st.pos
    /\ LastChar' = st.LastChar
    /\ IdentifierStr' = st.IdentifierStr
    /\ NumVal' = st.NumVal
    /\ CurTok' = st.CurTok
    /\ BinopPrecedence' = st.BinopPrecedence
    /\ toks' = st.toks

\* The statics as the program starts: LastChar is ' ', the others are
\* zero-initialised, the map is empty.
Init ==
    /\ input \in Inputs
    /\ pos = 0
    /\ LastChar = Ord[" "]
    /\ IdentifierStr = <<>>
    /\ NumVal = <<0, 0>>
    /\ CurTok = 0
    /\ BinopPrecedence = <<>>
    /\ pc = "start"
    /\ parsed = <<>>
    /\ last = [kind |-> "none", start |-> 0, at |-> 0, errs |-> <<>>,
               late |-> 0, fails |-> 0]
    /\ toks = <<>>

\* main up to its loop: the precedences are installed and the first token
\* is read.
MainStart ==
    /\ pc = "start"
    /\ Becomes(getNextToken([Cur EXCEPT !.BinopPrecedence = InstallBinops(@)]))
    /\ pc' = "loop"
    /\ UNCHANGED <<input, parsed, last>>

\* case EOFToken: return 0;
MainEOF ==
    /\ pc = "loop"
    /\ CurTok = EOFToken
    /\ pc' = "done"
    /\ UNCHANGED <<input, pos, LastChar, IdentifierStr, NumVal, CurTok,
                   BinopPrecedence, parsed, last, toks>>

\* case ';': getNextToken();
MainSemicolon ==
    /\ pc = "loop"
    /\ CurTok = Ord[";"]
    /\ Becomes(getNextToken(Cur))
    /\ last' = [kind |-> "semi", start |-> Len(toks), at |-> Len(toks),
                errs |-> <<>>, late |-> 0, fails |-> last.fails]
    /\ UNCHANGED <<input, pc, parsed>>

\* A dispatch to a handler: h is what the handler did.
Dispatched(kind, h) ==
    /\ Becomes(h.st)
    /\ parsed' = Append(parsed, h.v)
    /\ last' = [kind |-> kind, start |-> Len(toks), at |-> Len(h.at.toks),
                errs |-> h.st.errs, late |-> h.st.late,
                fails |-> last.fails + (IF h.v = Null THEN 1 ELSE 0)]
    /\ UNCHANGED <<input, pc>>

\* case DefToken: parser.HandleDefinition();
MainDefinition ==
    /\ pc = "loop"
    /\ CurTok = DefToken
    /\ Dispatched("def", HandleDefinition(Cur))

\* case ExternToken: parser.HandleExtern();
MainExtern ==
    /\ pc = "loop"
    /\ CurTok = ExternToken
    /\ Dispatched("extern", HandleExtern(Cur))

\* default: parser.HandleTopLevelExpression();
MainTopLevelExpression ==
    /\ pc = "loop"
    /\ CurTok \notin {EOFToken, Ord[";"], DefToken, ExternToken}
    /\ Dispatched("expr", HandleTopLevelExpression(Cur))

Next ==
    \/ MainStart
    \/ MainEOF
    \/ MainSemicolon
    \/ MainDefinition
    \/ MainExtern
    \/ MainTopLevelExpression

Spec == Init /\ [][Next]_vars

-----------------------------------------------------------------------------
(* What the properties below speak of *)

\* What the last dispatched Parse* call returned.
result == IF parsed = <<>> THEN Null ELSE parsed[Len(parsed)]

\* The last step was a dispatch to a handler.
Handled == last.kind \in {"def", "extern", "expr"}

\* The function ParseTopLevelExpr wraps an expression in.
Anon(E) == FunctionAST(PrototypeAST(AnonName, <<>>), E)

\* AST nodes by their text.
Num(n) == NumberExprAST(<<n, 0>>)
Var(c) == VariableExprAST(Str(<<c>>))
Bin(c, L, R) == BinaryExprAST(Ord[c], L, R)

\* The precedence main gives an operator.
Prec(op) == InstallBinops(<<>>)[op]

\* The tokens before the first EOFToken, and that EOFToken.
RECURSIVE UpToEOF(_)
UpToEOF(ts) ==
    IF ts = <<>> THEN <<>>
    ELSE IF ts[1][1] = EOFToken THEN <<ts[1]>>
    ELSE <<ts[1]>> \o UpToEOF(Tail(ts))

-----------------------------------------------------------------------------
(* C1 *)

\* a op1 (b op2 c)
RightNested(c) ==
    BinaryExprAST(c.ops[1], PrimAST(c.kinds[0], 0),
                  BinaryExprAST(c.ops[2], PrimAST(c.kinds[1], 1),
                                PrimAST(c.kinds[2], 2)))

\* The chains a op1 b op2 c whose second operator binds tighter, each with
\* the tree the claim gives it.
TighterChains ==
    {<<ChainText(c), Anon(RightNested(c))>> :
        c \in {d \in Chains(2) : Prec(d.ops[2]) > Prec(d.ops[1])}}

MulTree == Anon(Bin("+", Num(1), Bin("*", Num(2), Num(3))))

\* C1: when the input is a chain a op1 b op2 c of primaries with
\* prec(op2) > prec(op1), the expression parsed from it is
\* BinaryOp(op1, a, BinaryOp(op2, b, c)); 1+2*3 gives
\* BinaryOp('+', 1, BinaryOp('*', 2, 3)).
C1_TighterOperatorNestsRight ==
    parsed # <<>> =>
        /\ \A p \in TighterChains : input = p[1] => parsed[1] = p[2]
        /\ input = MulInput => parsed[1] = MulTree

C1_Witness ==
    /\ input = Str(<<"a", "<", "(", "1", ")", "*", "c">>)
    /\ pc = "done"
    /\ parsed = <<Anon(Bin("<", Var("a"), Bin("*", Num(1), Var("c"))))>>

-----------------------------------------------------------------------------
(* C2 *)

\* ((p0 op1 p1) op2 p2) ... opn pn
RECURSIVE LeftNested(_, _)
LeftNested(c, n) ==
    IF n = 0 THEN PrimAST(c.kinds[0], 0)
    ELSE BinaryExprAST(c.ops[n], LeftNested(c, n - 1), PrimAST(c.kinds[n], n))

\* The chains whose operators all have the same precedence, each with its
\* fully left-nested tree.
EqualPrecChains ==
    {<<ChainText(c), Anon(LeftNested(c, ChainLen(c)))>> :
        c \in {d \in UNION {Chains(N) : N \in 1..MaxOps} :
                  \A i \in 1..ChainLen(d) : Prec(d.ops[i]) = Prec(d.ops[1])}}

SubTree == Anon(Bin("-", Bin("-", Num(1), Num(2)), Num(3)))

\* C2: when the input is a chain p0 op1 p1 ... opN pN whose operators all
\* have the same precedence, the expression parsed from it is the fully
\* left-nested tree; 1-2-3 gives BinaryOp('-', BinaryOp('-', 1, 2), 3).
C2_EqualPrecedenceNestsLeft ==
    parsed # <<>> =>
        /\ \A p \in EqualPrecChains : input = p[1] => parsed[1] = p[2]
        /\ input = SubInput => parsed[1] = SubTree

C2_Witness ==
    /\ input = Str(<<"a", "-", "b", "+", "(", "2", ")", "-", "x">>)
    /\ pc = "done"
    /\ parsed = <<Anon(Bin("-", Bin("+", Bin("-", Var("a"), Var("b")), Num(2)),
                           Var("x")))>>

-----------------------------------------------------------------------------
(* C6 *)

AvgProto == PrototypeAST(Str(<<"a", "v", "g">>), <<Str(<<"a">>), Str(<<"b">>)>>)
AvgSum == Bin("+", Var("a"), Var("b"))

\* C6 as claimed: def avg(a b) (a+b)/2 is one definition whose body is
\* BinaryOp('/', BinaryOp('+', a, b), 2), and it consumes the whole input.
C6_BodyIsDivision ==
    (input = AvgInput /\ parsed # <<>>) =>
        /\ parsed[1] = FunctionAST(AvgProto, Bin("/", AvgSum, Num(2)))
        /\ (Len(parsed) = 1 /\ Handled => CurTok = EOFToken)

\* C6 as amended: '/' is no operator of the baseline table, so the
\* definition's body is BinaryOp('+', a, b), without a node for the
\* parentheses, and the definition ends before the '/'; the '/' is then
\* rejected as a top-level expression and 2 is parsed as one of its own.
C6_BodyStopsAtSlash ==
    (input = AvgInput /\ parsed # <<>>) =>
        /\ parsed[1] = FunctionAST(AvgProto, AvgSum)
        /\ (Len(parsed) = 1 => CurTok = Ord["/"])
        /\ (pc = "done" => parsed = <<parsed[1], Null, Anon(Num(2))>>)

C6_Witness ==
    /\ input = AvgInput
    /\ pc = "done"
    /\ parsed = <<FunctionAST(AvgProto, AvgSum), Null, Anon(Num(2))>>

-----------------------------------------------------------------------------
(* C9 *)

Baseline ==
    (Ord["<"] :> 10) @@ (Ord["+"] :> 20) @@ (Ord["-"] :> 20) @@ (Ord["*"] :> 40)

\* C9 as claimed: once main has initialised it, the precedence table holds
\* exactly '<':10, '+':20, '-':20, '*':40, every key maps to a positive
\* integer, and no GetTokPrecedence call changes it.
C9_TableFixed ==
    pc # "start" =>
        /\ BinopPrecedence = Baseline
        /\ \A k \in DOMAIN BinopPrecedence : BinopPrecedence[k] > 0

-----------------------------------------------------------------------------
(* C3 *)

\* What is left for main to do: the characters not yet read, the pushback
\* character and the lookahead token unless they are the end of input, and
\* the return.
Remaining ==
    (Len(input) - pos)
      + (IF LastChar # EOF THEN 1 ELSE 0)
      + (IF CurTok # EOFToken THEN 1 ELSE 0)
      + (IF pc # "done" THEN 1 ELSE 0)

\* C3: main terminates on every input: every step of main leaves strictly
\* less to do, which cannot go on for ever, and every turn of its loop that
\* does not return consumes at least one token, whether the parse succeeded
\* or failed.
C3_MainTerminates ==
    [][/\ Remaining' < Remaining
       /\ Remaining' >= 0
       /\ (pc = "loop" /\ pc' = "loop") => Len(toks') > Len(toks)]_vars

C3_Witness ==
    /\ pc = "done"
    /\ last.fails >= 2
    /\ Len(parsed) >= 3

-----------------------------------------------------------------------------
(* C4 *)

\* The tokens the last dispatch consumed: from the token it started at up
\* to, and not including, the lookahead token.
Consumed == SubSeq(toks, last.start, Len(toks) - 1)

Tok(k) == <<k, <<>>>>
IdTok(name) == <<IdentifierToken, name>>

NoParens(ts) == SelectSeq(ts, LAMBDA t : t[1] \notin {Ord["("], Ord[")"]})

\* How many parentheses ts opens and does not close.
Depth(ts) ==
    Len(SelectSeq(ts, LAMBDA t : t[1] = Ord["("]))
      - Len(SelectSeq(ts, LAMBDA t : t[1] = Ord[")"]))

\* The tokens a tree stands for, in source order, without parentheses.
RECURSIVE Yield(_), YieldArgs(_)
Yield(n) ==
    CASE n.type = "Number" -> <<<<NumberToken, n.Val>>>>
      [] n.type = "Variable" -> <<IdTok(n.Name)>>
      [] n.type = "Binary" -> Yield(n.LHS) \o <<Tok(n.Op)>> \o Yield(n.RHS)
      [] n.type = "Call" -> <<IdTok(n.Callee)>> \o YieldArgs(n.Args)
      [] n.type = "Prototype" ->
            <<IdTok(n.Name)>> \o [i \in 1..Len(n.Args) |-> IdTok(n.Args[i])]
      [] n.type = "Function" ->
            (IF n.Proto.Name = AnonName THEN <<>>
             ELSE <<Tok(DefToken)>> \o Yield(n.Proto)) \o Yield(n.Body)
YieldArgs(args) ==
    IF args = <<>> THEN <<>>
    ELSE IF Len(args) = 1 THEN Yield(args[1])
    ELSE Yield(args[1]) \o <<Tok(Ord[","])>> \o YieldArgs(Tail(args))

\* The tokens of the form a successful dispatch returned.
FormYield ==
    IF last.kind = "extern" THEN <<Tok(ExternToken)>> \o Yield(result)
    ELSE Yield(result)

\* After a successful dispatch the tokens consumed are exactly those of
\* the form returned, its parentheses are closed, and CurTok is the one
\* token read after them.
C4_Success ==
    (Handled /\ result # Null) =>
        /\ NoParens(Consumed) = FormYield
        /\ Depth(Consumed) = 0
        /\ CurTok = toks[Len(toks)][1]

\* After a failed dispatch CurTok is past the whole abandoned unit: it is
\* not the ')' of a parenthesis the unit opened.
C4_FailurePastUnit ==
    (Handled /\ result = Null) => ~(Depth(Consumed) > 0 /\ CurTok = Ord[")"])

\* After a failed dispatch CurTok is the token after the one at which the
\* Parse* call gave up.
C4_FailureOneToken ==
    (Handled /\ result = Null) =>
        /\ last.at >= last.start
        /\ Len(toks) = last.at + 1
        /\ CurTok = toks[Len(toks)][1]

\* C4 as claimed: after a successful dispatch CurTok is the first token
\* that is not part of the parsed form, and after a failed one the handler
\* has advanced CurTok past the whole abandoned unit.
C4_PositionedAfterUnit == C4_Success /\ C4_FailurePastUnit

\* C4 as amended: after a successful dispatch CurTok is the first token
\* that is not part of the parsed form, and after a failed one the handler
\* has advanced CurTok exactly one token past the token at which the parse
\* gave up, which may leave it inside the abandoned unit.
C4_PositionedAfterForm == C4_Success /\ C4_FailureOneToken

C4_Witness ==
    /\ input = MissingCommaInput
    /\ Len(parsed) = 1
    /\ result = Null
    /\ Consumed = <<IdTok(Str(<<"f", "o", "o">>)), Tok(Ord["("]),
                    <<NumberToken, <<1, 0>>>>, <<NumberToken, <<2, 0>>>>>>
    /\ CurTok = Ord[")"]

-----------------------------------------------------------------------------
(* C5 *)

\* C5: when a sub-parse of a dispatch has returned nullptr (each such
\* return starts at a LogError), the dispatched Parse* call returns nullptr
\* too, no node is built after the error, and there is one error, not
\* several; foo(1 2) returns no node.
C5_FailureShortCircuits ==
    /\ Handled =>
        /\ last.errs # <<>> => (result = Null /\ last.late = 0)
        /\ result = Null => Len(last.errs) = 1
    /\ (input = MissingCommaInput /\ parsed # <<>>) => parsed[1] = Null

C5_Witness ==
    /\ input = MissingCommaInput
    /\ Len(parsed) = 1
    /\ result = Null
    /\ last.errs = <<"Expected ')' or ',' in argument list">>
    /\ last.late = 0

-----------------------------------------------------------------------------
(* C7 *)

\* The tokens of successive getNextToken calls up to EOFToken, CurTok being
\* the one just read.
RECURSIVE LexToEOF(_)
LexToEOF(st) ==
    IF st.CurTok = EOFToken THEN st.toks ELSE LexToEOF(getNextToken(st))

\* A second run of gettok over the same characters, in the state the first
\* run left the lexer in.
Relexed == LexToEOF(getNextToken([Cur EXCEPT !.pos = 0, !.toks = <<>>]))

\* C7 as claimed: once an input is lexed up to EOFToken and accepted
\* without error, lexing the same characters again gives the same tokens
\* with the same payloads, whatever LastChar, IdentifierStr and NumVal the
\* first run left.
C7_RelexIdentical ==
    (pc = "done" /\ last.fails = 0) => Relexed = UpToEOF(toks)

-----------------------------------------------------------------------------
(* C8 *)

\* The text without its comments: each '#' and what follows it up to, not
\* including, the end of the line ('\n' or '\r') or the end of the text.
RECURSIVE StripComments(_, _)
StripComments(text, inComment) ==
    IF text = <<>> THEN <<>>
    ELSE IF inComment
    THEN IF text[1] \in {Ord["\n"], Ord["\r"]}
         THEN <<text[1]>> \o StripComments(Tail(text), FALSE)
         ELSE StripComments(Tail(text), TRUE)
    ELSE IF text[1] = Ord["#"] THEN StripComments(Tail(text), TRUE)
    ELSE <<text[1]>> \o StripComments(Tail(text), FALSE)

\* The tokens of a text, lexed by a program that has just started.
TokensOf(text) ==
    LexToEOF(getNextToken(
        [input |-> text, pos |-> 0, LastChar |-> Ord[" "],
         IdentifierStr |-> <<>>, NumVal |-> <<0, 0>>, CurTok |-> 0,
         BinopPrecedence |-> <<>>, toks |-> <<>>, errs |-> <<>>, late |-> 0]))

\* C8: the tokens gettok returns for an input are those of the input
\* without its comments; 1 # comment\n2 lexes as Number(1), Number(2), EOF.
C8_CommentsLexAsNothing ==
    pc = "done" =>
        /\ UpToEOF(toks) = TokensOf(StripComments(input, FALSE))
        /\ input = CommentInput =>
              UpToEOF(toks) = <<<<NumberToken, <<1, 0>>>>,
                                <<NumberToken, <<2, 0>>>>, Tok(EOFToken)>>

C8_Witness ==
    /\ pc = "done"
    /\ input = Str(<<"a", " ", "#", "(", "+", "\r", "#", "c", "\n", "d">>)
    /\ UpToEOF(toks) = <<IdTok(Str(<<"a">>)), IdTok(Str(<<"d">>)), Tok(EOFToken)>>

-----------------------------------------------------------------------------
(* C10 *)

\* Token i has been read and is an Identifier.
IsIdentifier(i) == i <= Len(toks) /\ toks[i][1] = IdentifierToken

\* Token i has been read and is the character c.
IsChar(i, c) == i <= Len(toks) /\ toks[i][1] = Ord[c]

\* The first token at or after j that is not an Identifier.
RECURSIVE ParamsEnd(_)
ParamsEnd(j) == IF IsIdentifier(j) THEN ParamsEnd(j + 1) ELSE j

\* What the claim has ParsePrototype do when it is entered at token s: the
\* node it returns and the token CurTok is then on.
Prototyped(s, j) ==
    IF ~IsIdentifier(s) THEN [v |-> Null, at |-> s]
    ELSE IF ~IsChar(s + 1, "(") THEN [v |-> Null, at |-> s + 1]
    ELSE IF ~IsChar(j, ")") THEN [v |-> Null, at |-> j]
    ELSE [v  |-> PrototypeAST(toks[s][2],
                              [k \in 1..(j - s - 2) |-> toks[s + 1 + k][2]]),
          at |-> j + 1]
ClaimedPrototype(s) == Prototyped(s, ParamsEnd(s + 2))

\* C10: ParsePrototype, entered on an Identifier followed by '(', collects
\* the Identifier tokens that follow in order, duplicates kept, and succeeds
\* exactly when the next token is ')', which it consumes; on any other token
\* it returns nullptr with CurTok on that token; so it does on a name that
\* is no Identifier and on a missing '('.
C10_PrototypeParameters ==
    /\ last.kind = "extern" =>
        /\ result = ClaimedPrototype(last.start + 1).v
        /\ last.at = ClaimedPrototype(last.start + 1).at
    /\ last.kind = "def" =>
        IF ClaimedPrototype(last.start + 1).v = Null
        THEN result = Null /\ last.at = ClaimedPrototype(last.start + 1).at
        ELSE /\ last.at >= ClaimedPrototype(last.start + 1).at
             /\ result # Null => result.Proto = ClaimedPrototype(last.start + 1).v

C10_Witness ==
    /\ last.kind = "extern"
    /\ result = PrototypeAST(Str(<<"f">>), <<Str(<<"b">>), Str(<<"b">>)>>)
    /\ CurTok = IdentifierToken

=============================================================================
